---- MODULE Spec2Model ----
(***************************************************************************)
(* chipool: the fixed-size object pool of src/chipool.hpp.                 *)
(*                                                                         *)
(* Memory is modelled by addresses.  A page returned by the acquire        *)
(* strategy starts at a multiple of the page size; a sub-pool (chunk) is a *)
(* header followed by kChipCount chips; a pointer is the address of the    *)
(* chip it designates.  Deallocate recovers the sub-pool and the chip      *)
(* index from the pointer by the arithmetic of the source.                 *)
(*                                                                         *)
(* The page size and the sizes of the object types larger than one byte    *)
(* are scaled down (136 for 4096, a 40-byte and a 60-byte T) so that a     *)
(* sub-pool holds 3 or 2 chips; for the 1-byte type the page is scaled to  *)
(* 144, so that a page holds 6 sub-pools of 2 chips.  The header size, the *)
(* 1-byte divisor, the invalid index and the integer widths are those of   *)
(* the source.                                                             *)
(***************************************************************************)
EXTENDS Integers, Sequences, FiniteSets, TLC

(***************************************************************************)
(* Bounds of the model                                                     *)
(***************************************************************************)
\* pages the acquire strategy hands out before it can only fail
MaxPages == 2
\* the same for the large object type, whose sub-pools hold fewer chips
MaxPagesLarge == 3
\* pages and live objects of the second Pool of the two-Pool runs
MaxPagesOther == 1
MaxLiveOther == 1
\* objects the caller holds at the same time: of an ordinary type (two full
\* sub-pools and one more), and of the 1-byte type
MaxLive == 7
MaxLiveByte == 3
\* and of the large type
MaxLiveLarge == 5
\* the largest sizeof(T) whose layout is computed
MaxSizeofT == 130
\* chips past the end of a sub-pool's array that Allocate hands out before
\* the model stops following the sub-pool's bump frontier, and decrements
\* of a used_count below zero before it stops following the counter
MaxOverrun == 1

(***************************************************************************)
(* Program constants                                                       *)
(***************************************************************************)
\* kPageSize
kPageSize == 4096
\* kPageSize (4096 in the source), scaled: for the object types larger than
\* one byte, and for the 1-byte type (whose sub-pools are an eighth of it)
ModelPageSize == 136
BytePageSize == 144
\* sizeof(T) of the ordinary (non-1-byte) object type of the model
OrdinarySize == 40
\* sizeof(T) of a larger object type: a sub-pool holds 2 chips
LargeSize == 60
\* sizeof(Header): four uint16_t and one pointer, 64-bit target
sizeofHeader == 16
\* alignof(SubPool): that of the pointer in the header
alignofSubPool == 8
\* the divisor of kUsableSize for a 1-byte T
kSmallDiv == 8
\* kInvalidIdx: uint16_t ~0
kInvalidIdx == 65535
\* the range of uint16_t and of uint8_t
Pow16 == 65536
Pow8 == 256

NULL == 0
\* an address that is neither NULL nor inside any page
WildPtr == 1
\* the content of a chip that holds no link the pool wrote
Undef == -1

VARIABLES
    sizeofT,    \* the template parameter: sizeof(T)
    zeroMem,    \* whether the acquire strategy returns zero-filled pages
    cur_pool_,  \* Pool::cur_pool_
    header,     \* sub-pool address -> its Header
    chips,      \* chip address -> the next_idx stored there, or Undef
    pages,      \* successful acquires so far
    live,       \* pointers returned by Allocate and not yet deallocated
    owner,      \* live pointer -> the sub-pool Allocate served it from
    last,       \* what the last call did
    deallocated,\* whether Deallocate was ever called
    ub,         \* "none", or the undefined behaviour the last call ran into
    releases,   \* calls of deallocate_ (the strategy's release) so far
    destroyed,  \* whether ~Pool() has run
    self,       \* the Pool (1 or 2) that cur_pool_, pages, live, owner are of
    other,      \* cur_pool_, pages, live, owner of the other Pool, and
                \* whether there is one (made)
    layout      \* what the compiler computed for SubPool<T> on the 4096-byte
                \* page, once it instantiated Pool<T>

vars == <<sizeofT, zeroMem, cur_pool_, header, chips, pages, live, owner,
          last, deallocated, ub, releases, destroyed, self, other, layout>>

(***************************************************************************)
(* Layout (SubPool<T>)                                                     *)
(***************************************************************************)
RoundUp(n, a) == ((n + a - 1) \div a) * a

\* sizeof(Chip): union of T and a uint8_t (1-byte T) or uint16_t link
sizeofChipOf(s) == IF s = 1 THEN 1 ELSE RoundUp(IF s < 2 THEN 2 ELSE s, 2)

kUsableSizeOf(page, s) ==
    (IF s = 1 THEN page \div kSmallDiv ELSE page) - sizeofHeader

kChipCountOf(page, s) == kUsableSizeOf(page, s) \div sizeofChipOf(s)

is_valid_chip_v(page, s) == kUsableSizeOf(page, s) % s = 0

sizeofSubPoolOf(page, s) ==
    RoundUp(sizeofHeader + kChipCountOf(page, s) * sizeofChipOf(s),
            alignofSubPool)

\* kPageSize
PageSize == IF sizeofT = 1 THEN BytePageSize ELSE ModelPageSize

sizeofChip == sizeofChipOf(sizeofT)
kUsableSize == kUsableSizeOf(PageSize, sizeofT)
kChipCount == kChipCountOf(PageSize, sizeofT)
sizeofSubPool == sizeofSubPoolOf(PageSize, sizeofT)

\* the range of Chip::next_idx
LinkRange == IF sizeofT = 1 THEN Pow8 ELSE Pow16

\* pool_num of AllocSubPool; an ordinary T has one sub-pool per page
pool_num == IF sizeofT = 1 THEN PageSize \div sizeofSubPool ELSE 1

\* (uintptr_t)ptr & kPageMask
PageBase(ptr) == ptr - (ptr % PageSize)

\* &pool->usable_mems[i]
ChipAddr(pool, i) == pool + sizeofHeader + i * sizeofChip

\* the chips of the sub-pool at address pool
ChipsOf(pool) == {ChipAddr(pool, i) : i \in 0 .. kChipCount - 1}

\* pages the strategy hands to the Pool self before it can only fail
PageLimit ==
    IF self = 2 THEN MaxPagesOther
    ELSE IF sizeofT = LargeSize /\ ~other.made THEN MaxPagesLarge ELSE MaxPages

\* The strategy hands out disjoint pages, at the multiples of kPageSize:
\* the first MaxPages to Pool 1, the next MaxPagesOther to Pool 2, those
\* after them to Pool 1.
PageAddr(k) ==
    IF self = 2 THEN (MaxPages + k) * PageSize
    ELSE IF k <= MaxPages THEN k * PageSize
    ELSE (MaxPagesOther + k) * PageSize

\* the sub-pools AllocSubPool lays out in the page at address base
PoolsIn(base) == {base + j * sizeofSubPool : j \in 0 .. pool_num - 1}

IsFreeIdxValid(h) == h.free_idx # kInvalidIdx
IsNotBeginInEnd(h) == h.begin_idx # kChipCount
IsFull(h) == h.used_count = kChipCount
IsEmpty(h) == h.used_count = 0

(***************************************************************************)
(* The acquire strategy                                                    *)
(***************************************************************************)
\* What a page holds where AllocSubPool writes nothing: zero, or anything
\* (here: zero but for one of the header fields).
ZeroPage == [used_count |-> 0, begin_idx |-> 0, next_pool |-> NULL]
PageContents ==
    IF zeroMem
    THEN {ZeroPage}
    ELSE {ZeroPage,
          [ZeroPage EXCEPT !.used_count = 1],
          [ZeroPage EXCEPT !.begin_idx = 1],
          [ZeroPage EXCEPT !.next_pool = WildPtr]}

\* allocate_(kPageSize): a null handle, or a page with some contents
AcquireOutcomes ==
    {[ok |-> FALSE, mem |-> ZeroPage]}
    \cup {[ok |-> TRUE, mem |-> m] : m \in PageContents}

\* what a read of a chip the pool wrote no link to can find
UndefReads == {0, 1, LinkRange - 1}

(***************************************************************************)
(* What the last call did (the variable last):                             *)
(*   op        "Pool", "Allocate" or "Deallocate"                          *)
(*   ptr       the pointer Allocate returned, or Deallocate was given      *)
(*   pool      the sub-pool Allocate served from, or Deallocate recovered  *)
(*             from the pointer                                            *)
(*   own       the sub-pool that served ptr                                *)
(*   path      "free" or "bump": the branch Allocate took                  *)
(*   acq       the successful acquires of the call                         *)
(*   failed    whether an acquire of the call returned a null handle       *)
(*   used      used_count of pool as the call found it (Allocate: after    *)
(*             the sub-pool was selected, before ++)                       *)
(*   relinked  whether Deallocate set next_pool                            *)
(***************************************************************************)

(***************************************************************************)
(* The calls.  A call is a sequence of statements; each operator below     *)
(* takes the machine state m the statements before it left, a record of    *)
(* cur_pool_, header, chips, pages and of what the call did so far:        *)
(*   ub      the undefined behaviour the call ran into ("none" if none)    *)
(*   acq     the successful acquires of the call                           *)
(*   failed  whether an acquire of the call returned a null handle         *)
(*   capped  whether the call needs a page beyond MaxPages                 *)
(***************************************************************************)
Machine ==
    [cur_pool_ |-> cur_pool_, header |-> header, chips |-> chips,
     pages |-> pages, ub |-> "none", acq |-> 0, failed |-> FALSE,
     capped |-> FALSE, pool |-> NULL]

\* the Header AllocSubPool leaves in sub-pool number j of the page at base
FreshHeader(base, j, mem) ==
    [free_idx   |-> kInvalidIdx,
     begin_idx  |-> mem.begin_idx,
     used_count |-> mem.used_count,
     next_pool  |-> IF sizeofT = 1 /\ j < pool_num - 1
                    THEN base + (j + 1) * sizeofSubPool
                    ELSE mem.next_pool]

\* SubPool* AllocSubPool(): the result is left in m.pool
AllocSubPool(m, a) ==
    IF ~a.ok
    THEN \* pool->header.free_idx = kInvalidIdx writes through the null handle
         [m EXCEPT !.pool = NULL, !.failed = TRUE, !.ub = "null_deref"]
    ELSE IF m.pages >= PageLimit
    THEN [m EXCEPT !.capped = TRUE]
    ELSE LET base == PageAddr(m.pages + 1)
             new  == PoolsIn(base)
         IN  [m EXCEPT
                !.pool = base,
                !.pages = m.pages + 1,
                !.acq = m.acq + 1,
                !.header = [p \in DOMAIN m.header \cup new |->
                              IF p \in new
                              THEN FreshHeader(base, (p - base) \div sizeofSubPool, a.mem)
                              ELSE m.header[p]],
                !.chips = [c \in DOMAIN m.chips \cup UNION {ChipsOf(p) : p \in new} |->
                              IF c \in DOMAIN m.chips THEN m.chips[c] ELSE Undef]]

Stopped(m) == m.ub # "none" \/ m.capped

\* if (!cur_pool_) cur_pool_ = AllocSubPool();
AllocateFirst(m, a) ==
    IF m.cur_pool_ # NULL THEN m
    ELSE LET n == AllocSubPool(m, a)
         IN  IF Stopped(n) THEN n ELSE [n EXCEPT !.cur_pool_ = n.pool]

\* an Allocate that acquires a new sub-pool whenever the current one is
\* full, without looking at next_pool
AllocateAdvanceAlways(m, a) ==
    IF Stopped(m) THEN m
    ELSE IF m.cur_pool_ \notin DOMAIN m.header THEN [m EXCEPT !.ub = "wild"]
    ELSE IF ~IsFull(m.header[m.cur_pool_]) THEN m
    ELSE LET n == AllocSubPool(m, a)
         IN  IF Stopped(n) THEN n ELSE [n EXCEPT !.cur_pool_ = n.pool]

\* if (cur_pool_->IsFull())
\*     cur_pool_ = next_pool ? next_pool : AllocSubPool();
AllocateAdvance(m, a) ==
    IF Stopped(m) THEN m
    ELSE IF m.cur_pool_ \notin DOMAIN m.header THEN [m EXCEPT !.ub = "wild"]
    ELSE IF ~IsFull(m.header[m.cur_pool_]) THEN m
    ELSE IF m.header[m.cur_pool_].next_pool # NULL
    THEN [m EXCEPT !.cur_pool_ = m.header[m.cur_pool_].next_pool]
    ELSE LET n == AllocSubPool(m, a)
         IN  IF Stopped(n) THEN n ELSE [n EXCEPT !.cur_pool_ = n.pool]

\* ++cur_pool_->header.used_count;
AllocateCount(m) ==
    IF Stopped(m) THEN m
    ELSE IF m.cur_pool_ \notin DOMAIN m.header THEN [m EXCEPT !.ub = "wild"]
    ELSE [m EXCEPT !.header[m.cur_pool_].used_count = (@ + 1) % Pow16]

\* the address of FreeMem() and of BeginMem()
FreeMem(m) == ChipAddr(m.cur_pool_, m.header[m.cur_pool_].free_idx)
BeginMem(m) == ChipAddr(m.cur_pool_, m.header[m.cur_pool_].begin_idx)

\* the free-list branch or the bump branch; r is what a read of undefined
\* chip contents finds.  The result is [m, ptr, path].
AllocateTake(m, r) ==
    IF Stopped(m) THEN [m |-> m, ptr |-> NULL, path |-> "none"]
    ELSE IF IsFreeIdxValid(m.header[m.cur_pool_])
    THEN LET res == FreeMem(m)
         IN  IF res \notin DOMAIN m.chips
             THEN [m |-> [m EXCEPT !.ub = "wild"], ptr |-> NULL, path |-> "free"]
             ELSE [m |-> [m EXCEPT !.header[m.cur_pool_].free_idx =
                                     IF m.chips[res] = Undef THEN r ELSE m.chips[res]],
                   ptr |-> res, path |-> "free"]
    ELSE [m |-> [m EXCEPT !.header[m.cur_pool_].begin_idx = (@ + 1) % Pow16],
          ptr |-> BeginMem(m), path |-> "bump"]

\* T* Pool::Allocate(), with a1 and a2 what its first and second acquire
\* return and r what a read of undefined chip contents finds
AllocateCall(a1, a2, r) ==
    LET m1 == AllocateFirst(Machine, a1)
        m2 == AllocateAdvance(m1, a2)
        m3 == AllocateCount(m2)
        t  == AllocateTake(m3, r)
        m  == t.m
    IN  /\ ~m.capped
        /\ \A p \in DOMAIN m.header :
              m.header[p].begin_idx <= kChipCount + MaxOverrun
        /\ IF m.ub # "none"
           THEN /\ ub' = m.ub
                /\ UNCHANGED <<cur_pool_, header, chips, pages, live, owner>>
           ELSE /\ ub' = "none"
                /\ cur_pool_' = m.cur_pool_
                /\ header' = m.header
                \* the caller owns the chip now and stores what it likes in it
                /\ chips' = [c \in DOMAIN m.chips |->
                               IF c = t.ptr THEN Undef ELSE m.chips[c]]
                /\ pages' = m.pages
                /\ live' = live \cup {t.ptr}
                /\ owner' = [p \in live \cup {t.ptr} |->
                               IF p = t.ptr THEN m.cur_pool_ ELSE owner[p]]
        /\ last' = [op |-> "Allocate", ptr |-> t.ptr, pool |-> m.cur_pool_,
                    own |-> m.cur_pool_, path |-> t.path, acq |-> m.acq, failed |-> m.failed,
                    \* used_count of the sub-pool served from, before ++
                    used |-> IF m2.ub = "none" /\ m2.cur_pool_ \in DOMAIN m2.header
                             THEN m2.header[m2.cur_pool_].used_count ELSE 0,
                    relinked |-> FALSE]
        /\ UNCHANGED <<sizeofT, zeroMem, deallocated, releases, destroyed, self, other,
                       layout>>

\* the outcomes of the acquire of a statement that reaches one
NoAcquire == [ok |-> FALSE, mem |-> ZeroPage]
FirstAcquires == IF cur_pool_ = NULL THEN AcquireOutcomes ELSE {NoAcquire}
SecondAcquires(m1) ==
    IF /\ ~Stopped(m1)
       /\ m1.cur_pool_ \in DOMAIN m1.header
       /\ IsFull(m1.header[m1.cur_pool_])
       /\ m1.header[m1.cur_pool_].next_pool = NULL
    THEN AcquireOutcomes ELSE {NoAcquire}
\* the values of the read of the popped chip's link
LinkReads(m3) ==
    IF /\ ~Stopped(m3)
       /\ IsFreeIdxValid(m3.header[m3.cur_pool_])
       /\ FreeMem(m3) \in DOMAIN m3.chips
       /\ m3.chips[FreeMem(m3)] = Undef
    THEN UndefReads ELSE {0}

\* objects the caller of the Pool self holds at the same time, at most
LiveLimit ==
    IF self = 2 THEN MaxLiveOther
    ELSE IF sizeofT = 1 THEN MaxLiveByte
    ELSE IF sizeofT = LargeSize THEN MaxLiveLarge ELSE MaxLive

Allocate ==
    /\ ub = "none"
    /\ ~destroyed
    /\ Cardinality(live) < LiveLimit
    /\ \E a1 \in FirstAcquires :
         \E a2 \in SecondAcquires(AllocateFirst(Machine, a1)) :
           \E r \in LinkReads(AllocateCount(AllocateAdvance(AllocateFirst(Machine, a1), a2))) :
             AllocateCall(a1, a2, r)

\* void Pool::Deallocate(T* ptr)
DeallocateCall(ptr) ==
    LET pool == PageBase(ptr)
        \* ((uintptr_t)ptr - (uintptr_t)pool->usable_mems) / sizeof(Chip)
        \* (a pointer below usable_mems is no chip: the call stores no idx
        \* computed from one, see wild below)
        idx  == (ptr - ChipAddr(pool, 0)) \div sizeofChip
    IN  IF \/ pool \notin DOMAIN header
           \/ IsFull(header[pool]) /\ cur_pool_ \notin DOMAIN header
        THEN /\ ub' = "wild"
             /\ last' = [op |-> "Deallocate", ptr |-> ptr, pool |-> pool,
                         own |-> owner[ptr], path |-> "none", acq |-> 0,
                         failed |-> FALSE, used |-> 0, relinked |-> FALSE]
             /\ UNCHANGED <<cur_pool_, header, chips, live, owner>>
        ELSE
        LET wasFull  == IsFull(header[pool])
            relinked == wasFull /\ ~IsFull(header[cur_pool_])
            \* if (pool->IsFull()) { if (!cur_pool_->IsFull()) next_pool = cur_pool_; ... }
            h1 == IF relinked
                  THEN [header EXCEPT ![pool].next_pool = cur_pool_]
                  ELSE header
            \* --pool->header.used_count;
            h2 == [h1 EXCEPT ![pool].used_count = (@ - 1) % Pow16]
            nowEmpty == IsEmpty(h2[pool])
            \* chip->next_idx = pool->header.free_idx stores through ptr
            wild == ~nowEmpty /\ ptr \notin DOMAIN chips
        IN  /\ \/ h2[pool].used_count <= kChipCount + MaxOverrun
               \/ h2[pool].used_count >= Pow16 - MaxOverrun
            /\ ub' = IF wild THEN "wild" ELSE "none"
            /\ last' = [op |-> "Deallocate", ptr |-> ptr, pool |-> pool,
                        own |-> owner[ptr], path |-> "none", acq |-> 0,
                        failed |-> FALSE, used |-> header[pool].used_count,
                        relinked |-> relinked]
            /\ IF wild
               THEN UNCHANGED <<cur_pool_, header, chips, live, owner>>
               ELSE /\ cur_pool_' = IF wasFull THEN pool ELSE cur_pool_
                    /\ header' =
                         IF nowEmpty
                         THEN [h2 EXCEPT ![pool].free_idx = kInvalidIdx,
                                         ![pool].begin_idx = 0]
                         ELSE [h2 EXCEPT ![pool].free_idx = idx % Pow16]
                    /\ chips' =
                         IF nowEmpty THEN chips
                         ELSE [chips EXCEPT ![ptr] = header[pool].free_idx % LinkRange]
                    /\ live' = live \ {ptr}
                    /\ owner' = [p \in live \ {ptr} |-> owner[p]]

Deallocate ==
    /\ ub = "none"
    /\ ~destroyed
    /\ \E ptr \in live :
          /\ DeallocateCall(ptr)
          /\ deallocated' = TRUE
          /\ UNCHANGED <<sizeofT, zeroMem, pages, releases, destroyed, self, other,
                         layout>>

\* a destructor that hands every acquired page back to the strategy
DestroyReleasing ==
    /\ ub = "none"
    /\ ~destroyed
    /\ destroyed' = TRUE
    /\ releases' = releases + pages
    /\ UNCHANGED <<sizeofT, zeroMem, cur_pool_, header, chips, pages, live,
                   owner, last, deallocated, ub, self, other, layout>>

\* ~Pool() {}: the body is empty, and no member's destructor calls
\* deallocate_
Destroy ==
    /\ ub = "none"
    /\ ~destroyed
    /\ destroyed' = TRUE
    /\ releases' = releases
    /\ UNCHANGED <<sizeofT, zeroMem, cur_pool_, header, chips, pages, live,
                   owner, last, deallocated, ub, self, other, layout>>

\* The thread of the other Pool runs next: cur_pool_, pages, live and owner
\* become those of the other Pool.  The memory (header, chips) is one.
Switch ==
    /\ ub = "none"
    /\ ~destroyed
    /\ other.made
    /\ self' = 3 - self
    /\ cur_pool_' = other.cur_pool_
    /\ pages' = other.pages
    /\ live' = other.live
    /\ owner' = other.owner
    /\ other' = [made |-> TRUE, cur_pool_ |-> cur_pool_, pages |-> pages,
                 live |-> live, owner |-> owner]
    /\ UNCHANGED <<sizeofT, zeroMem, header, chips, last, deallocated, ub,
                   releases, destroyed, layout>>

(***************************************************************************)
(* The instantiation of the templates: SubPool<T>'s constants and the      *)
(* requires-clause of Pool<T>, on the page size of the source              *)
(***************************************************************************)
NoLayout ==
    [done |-> FALSE, accepted |-> FALSE, kUsableSize |-> 0, kChipCount |-> 0,
     sizeofChip |-> 0]

Instantiate ==
    /\ ~layout.done
    /\ layout' = [done        |-> TRUE,
                  accepted    |-> is_valid_chip_v(kPageSize, sizeofT),
                  kUsableSize |-> kUsableSizeOf(kPageSize, sizeofT),
                  kChipCount  |-> kChipCountOf(kPageSize, sizeofT),
                  sizeofChip  |-> sizeofChipOf(sizeofT)]
    /\ UNCHANGED <<sizeofT, zeroMem, cur_pool_, header, chips, pages, live,
                   owner, last, deallocated, ub, releases, destroyed, self,
                   other>>

(***************************************************************************)
(* The state machine                                                       *)
(***************************************************************************)
\* Pool(allocate, deallocate), for one of the object types of the model
Init ==
    /\ sizeofT \in {1, OrdinarySize, LargeSize}
    /\ zeroMem \in BOOLEAN
    /\ cur_pool_ = NULL
    /\ header = [p \in {} |-> 0]
    /\ chips = [c \in {} |-> 0]
    /\ pages = 0
    /\ live = {}
    /\ owner = [p \in {} |-> 0]
    /\ last = [op |-> "Pool", ptr |-> NULL, pool |-> NULL, own |-> NULL,
               path |-> "none", acq |-> 0, failed |-> FALSE, used |-> 0, relinked |-> FALSE]
    /\ deallocated = FALSE
    /\ ub = "none"
    /\ releases = 0
    /\ destroyed = FALSE
    /\ self = 1
    /\ other = [made |-> FALSE, cur_pool_ |-> NULL, pages |-> 0, live |-> {},
                owner |-> [p \in {} |-> 0]]
    /\ layout = NoLayout

Next == Allocate \/ Deallocate

\* every object type, every acquire strategy
Spec == Init /\ [][Next]_vars

\* an ordinary object type, a strategy that returns zero-filled pages
InitOrdinaryZero == Init /\ sizeofT = OrdinarySize /\ zeroMem = TRUE
SpecOrdinaryZero == InitOrdinaryZero /\ [][Next]_vars

\* the 1-byte object type, a strategy that returns zero-filled pages
InitByteZero == Init /\ sizeofT = 1 /\ zeroMem = TRUE
SpecByteZero == InitByteZero /\ [][Next]_vars

\* an ordinary object type, any strategy
InitOrdinary == Init /\ sizeofT = OrdinarySize
SpecOrdinary == InitOrdinary /\ [][Next]_vars

\* the 1-byte object type, any strategy
InitByte == Init /\ sizeofT = 1
SpecByte == InitByte /\ [][Next]_vars

\* the large object type, a strategy that returns zero-filled pages
InitLargeZero == Init /\ sizeofT = LargeSize /\ zeroMem = TRUE
SpecLargeZero == InitLargeZero /\ [][Next]_vars

\* the life of a Pool up to its destruction, for the 1-byte and the large
\* object type
InitLife == Init /\ sizeofT \in {1, LargeSize} /\ zeroMem = TRUE
NextLife == Allocate \/ Deallocate \/ Destroy
SpecLife == InitLife /\ [][NextLife]_vars

\* the instantiation of Pool<T> for the object sizes 1 .. MaxSizeofT
InitLayout ==
    /\ sizeofT \in 1 .. MaxSizeofT
    /\ zeroMem \in BOOLEAN
    /\ cur_pool_ = NULL
    /\ header = [p \in {} |-> 0]
    /\ chips = [c \in {} |-> 0]
    /\ pages = 0
    /\ live = {}
    /\ owner = [p \in {} |-> 0]
    /\ last = [op |-> "Pool", ptr |-> NULL, pool |-> NULL, own |-> NULL,
               path |-> "none", acq |-> 0, failed |-> FALSE, used |-> 0, relinked |-> FALSE]
    /\ deallocated = FALSE
    /\ ub = "none"
    /\ releases = 0
    /\ destroyed = FALSE
    /\ self = 1
    /\ other = [made |-> FALSE, cur_pool_ |-> NULL, pages |-> 0, live |-> {},
                owner |-> [p \in {} |-> 0]]
    /\ layout = NoLayout
SpecLayout == InitLayout /\ [][Instantiate]_vars

\* two Pools of the large object type, one thread each
InitTwo ==
    /\ sizeofT = LargeSize
    /\ zeroMem = TRUE
    /\ cur_pool_ = NULL
    /\ header = [p \in {} |-> 0]
    /\ chips = [c \in {} |-> 0]
    /\ pages = 0
    /\ live = {}
    /\ owner = [p \in {} |-> 0]
    /\ last = [op |-> "Pool", ptr |-> NULL, pool |-> NULL, own |-> NULL,
               path |-> "none", acq |-> 0, failed |-> FALSE, used |-> 0, relinked |-> FALSE]
    /\ deallocated = FALSE
    /\ ub = "none"
    /\ releases = 0
    /\ destroyed = FALSE
    /\ self = 1
    /\ other = [made |-> TRUE, cur_pool_ |-> NULL, pages |-> 0, live |-> {},
                owner |-> [p \in {} |-> 0]]
    /\ layout = NoLayout
NextTwo == Allocate \/ Deallocate \/ Switch
SpecTwo == InitTwo /\ [][NextTwo]_vars

(***************************************************************************)
(* The claims                                                              *)
(***************************************************************************)
Pools == DOMAIN header
Returned == last.op = "Allocate" /\ ub = "none"
Released == last.op = "Deallocate" /\ ub = "none"
\* the live chips of sub-pool p
LiveOf(p) == {q \in live : owner[q] = p}

\* C1: Allocate never serves from a full sub-pool: the sub-pool it selected
\* has used_count < kChipCount before the increment; and a full current
\* sub-pool that has a linked successor has a successor that is not full.
C1_ServesFromNonFull ==
    /\ Returned => last.used < kChipCount
    /\ (ub = "none" /\ cur_pool_ # NULL /\ IsFull(header[cur_pool_])
          /\ header[cur_pool_].next_pool \in Pools)
       => ~IsFull(header[header[cur_pool_].next_pool])

\* C2: every acquired sub-pool has 0 <= used_count <= kChipCount.
C2_UsedCountInRange ==
    \A p \in Pools : header[p].used_count \in 0 .. kChipCount

\* C3: every sub-pool has 0 <= begin_idx <= kChipCount, and every pointer
\* Allocate returns is one of the kChipCount chips of the sub-pool it was
\* taken from.
C3_ReturnsChipOfPool ==
    /\ \A p \in Pools : header[p].begin_idx \in 0 .. kChipCount
    /\ Returned => last.ptr \in ChipsOf(last.pool)

\* C4: when a live chip p is deallocated from a sub-pool that is current
\* after the call and still holds another live chip, the Allocate that
\* follows (if no acquire of it fails) returns p.
C4_LifoReuse ==
    [][(/\ Released
        /\ cur_pool_ = last.own
        /\ LiveOf(last.own) # {}
        /\ last'.op = "Allocate"
        /\ ~last'.failed)
       => (ub' = "none" /\ last'.ptr = last.ptr)]_vars

\* the last call released the last live chip of the sub-pool that served it
Emptied == Released /\ LiveOf(last.own) = {}
IsReset(h) == h.used_count = 0 /\ h.free_idx = kInvalidIdx /\ h.begin_idx = 0

Rotates(x, ptr) ==
    /\ ub = "none"
    /\ ptr \in live /\ owner[ptr] = x /\ ptr \in ChipsOf(x)
    /\ x \in Pools /\ IsFull(header[x])
    /\ cur_pool_ \in Pools /\ cur_pool_ # x /\ ~IsFull(header[cur_pool_])

\* C6: if sub-pool X is full and the current sub-pool Y # X is not, then
\* Deallocate of a live chip of X makes X current with Y its next_pool,
\* leaves Y's header and chips as they were, and the Allocate that follows
\* is served from X.
C6_Rotation ==
    [][/\ (last'.op = "Deallocate" /\ Rotates(last'.own, last'.ptr))
          => /\ ub' = "none"
             /\ cur_pool_' = last'.own
             /\ header'[last'.own].next_pool = cur_pool_
             /\ header'[cur_pool_] = header[cur_pool_]
             /\ \A c \in ChipsOf(cur_pool_) : chips'[c] = chips[c]
       /\ (Released /\ last.relinked /\ last.pool = last.own
             /\ last'.op = "Allocate" /\ ~last'.failed)
          => (ub' = "none" /\ last'.pool = last.own)]_vars

\* the sub-pool the first acquire of a Pool returns
FirstPool == PageSize

\* C7: with no Deallocate call, Allocate calls 1 to kChipCount cause one
\* acquire and are all served from the same sub-pool, which is full at call
\* kChipCount and not before; call kChipCount + 1 is served from another
\* sub-pool.  (With no Deallocate the calls so far are the live pointers.)
C7_Capacity ==
    (~deallocated /\ ub = "none" /\ live # {})
    => LET n == Cardinality(live)
       IN  /\ n <= kChipCount
              => /\ pages = 1
                 /\ \A p \in live : owner[p] = FirstPool
                 /\ IsFull(header[FirstPool]) <=> n = kChipCount
           /\ n = kChipCount + 1 => last.pool # FirstPool

\* C8: the page base of every pointer Allocate returned is the sub-pool that
\* served it, and Deallocate changes the header of that sub-pool only.
C8_AlignmentRecovery ==
    [][/\ \A p \in live' : PageBase(p) = owner'[p]
       /\ Released' /\ last'.op = "Deallocate" /\ last' # last
          => /\ last'.pool = last'.own
             /\ \A c \in Pools \ {last'.own} : header'[c] = header[c]]_vars

\* C9: when the acquire strategy returns a null handle, Allocate returns
\* null and nothing is read or written through the null handle.
C9_AcquireFailure ==
    (last.op = "Allocate" /\ last.failed) => (ub = "none" /\ last.ptr = NULL)

\* C10: for an ordinary object size, the first Allocate served from a newly
\* acquired sub-pool returns its chip 0 and leaves it with used_count = 1,
\* begin_idx = 1, free_idx = kInvalidIdx and no next_pool, whatever the
\* acquired memory held.
C10_FreshPool ==
    (last.op = "Allocate" /\ last.acq > 0 /\ ~last.failed /\ sizeofT # 1)
    => /\ ub = "none"
       /\ last.ptr = ChipAddr(last.pool, 0)
       /\ header[last.pool] = [free_idx |-> kInvalidIdx, begin_idx |-> 1,
                               used_count |-> 1, next_pool |-> NULL]

\* C11: the strategy's release operation is never called: over construction,
\* Allocate, Deallocate and destruction the number of release calls stays 0
\* and no acquired sub-pool goes away, also when a sub-pool becomes empty.
C11_NeverReleases ==
    /\ [](releases = 0)
    /\ [][DOMAIN header \subseteq DOMAIN header' /\ pages' >= pages]_vars

\* a Pool destroyed after one of its sub-pools was emptied
C11_Witness ==
    /\ destroyed /\ deallocated /\ pages > 0 /\ live = {}
    /\ \E p \in Pools : header[p].used_count = 0 /\ header[p].begin_idx = 0


\* the Pool (1 or 2) the strategy handed the page of address a to
PoolOf(a) ==
    IF PageBase(a) \in {(MaxPages + k) * PageSize : k \in 1 .. MaxPagesOther}
    THEN 2 ELSE 1

\* C12: two Pools on disjoint pages are independent: a call on one Pool
\* changes neither the other Pool's cur_pool_ nor a header or a chip in the
\* other Pool's pages.
C12_Independence ==
    [][(self' = self)
       => /\ other' = other
          /\ \A p \in DOMAIN header :
                PoolOf(p) # self => (p \in DOMAIN header' /\ header'[p] = header[p])
          /\ \A c \in DOMAIN chips :
                PoolOf(c) # self => (c \in DOMAIN chips' /\ chips'[c] = chips[c])]_vars


\* the step is a call of Allocate that returned
AllocateReturns ==
    /\ last'.op = "Allocate" /\ ub' = "none"
    /\ self' = self /\ destroyed' = destroyed

\* C13: no double hand-out: the pointer Allocate returns is none of the
\* pointers returned earlier and not yet deallocated.
C13_NoDoubleHandOut ==
    [][AllocateReturns => last'.ptr \notin live]_vars


\* following the stored links of sub-pool p from index i, with the indices
\* in seen visited before: every index met is below begin_idx, is that of a
\* chip that is not live, is met once, and the walk ends at kInvalidIdx
RECURSIVE ChainOK(_, _, _)
ChainOK(p, i, seen) ==
    IF i = kInvalidIdx THEN TRUE
    ELSE /\ i < header[p].begin_idx
         /\ i \notin seen
         /\ ChipAddr(p, i) \in DOMAIN chips
         /\ ChipAddr(p, i) \notin live
         /\ chips[ChipAddr(p, i)] # Undef
         /\ ChainOK(p, chips[ChipAddr(p, i)], seen \cup {i})

\* C14: the free list of every sub-pool is well formed: free_idx is
\* kInvalidIdx or an index below begin_idx, and the links from it visit only
\* indices below begin_idx of chips that are not live, none twice, and end at
\* kInvalidIdx.
C14_FreeListWellFormed ==
    ub = "none" => \A p \in Pools : ChainOK(p, header[p].free_idx, {})


\* the number of chips on the free list of sub-pool p, following the stored
\* links from index i
RECURSIVE ChainLen(_, _, _)
ChainLen(p, i, seen) ==
    IF \/ i = kInvalidIdx
       \/ i \in seen
       \/ ChipAddr(p, i) \notin DOMAIN chips
    THEN 0
    ELSE IF chips[ChipAddr(p, i)] = Undef THEN 1
    ELSE 1 + ChainLen(p, chips[ChipAddr(p, i)], seen \cup {i})

\* C15: used_count of every sub-pool is the number of its chips that Allocate
\* returned and Deallocate was not yet given, and is begin_idx less the
\* length of its free list.
C15_UsedCountAccounting ==
    ub = "none"
    => \A p \in Pools :
          /\ header[p].used_count = Cardinality(LiveOf(p))
          /\ header[p].used_count =
                header[p].begin_idx - ChainLen(p, header[p].free_idx, {})


\* the step is a call of Allocate that called the acquire strategy
AcquireCalled ==
    /\ last'.op = "Allocate" /\ (last'.acq > 0 \/ last'.failed)
    /\ self' = self /\ destroyed' = destroyed

\* C16, as stated: Allocate calls the acquire strategy only in a state where
\* every sub-pool acquired so far is full.
C16_AcquireOnlyWhenAllFull ==
    [][AcquireCalled => \A p \in Pools : IsFull(header[p])]_vars

\* C16, amended: Allocate calls the acquire strategy only when there is no
\* current sub-pool, or the current sub-pool is full and has no linked
\* successor.
C16_AcquireWhenNeeded ==
    [][AcquireCalled
       => \/ cur_pool_ = NULL
          \/ /\ cur_pool_ \in Pools
             /\ IsFull(header[cur_pool_])
             /\ header[cur_pool_].next_pool = NULL]_vars


\* an acquire by an Allocate that found the current sub-pool full and without
\* successor, after objects were released
C16_Witness ==
    /\ last.op = "Allocate" /\ last.acq = 1 /\ ub = "none"
    /\ deallocated /\ pages = MaxPagesLarge
    /\ \E p \in Pools \ {last.pool} : header[p].next_pool # NULL


\* the step is a call of Deallocate that returned
DeallocateReturns ==
    /\ last'.op = "Deallocate" /\ ub' = "none" /\ live' # live
    /\ self' = self /\ destroyed' = destroyed

\* C17: a Deallocate whose owning sub-pool was not full leaves cur_pool_ and
\* every next_pool as they were and changes nothing but the owning
\* sub-pool's used_count, free_idx, begin_idx and the link of the freed
\* chip; a Deallocate whose owning sub-pool was full while the current one
\* was full too makes the owning sub-pool current and leaves its next_pool
\* as it was.
C17_DeallocateFrame ==
    [][DeallocateReturns
       => LET x == last'.own
          IN  /\ ~IsFull(header[x])
                 => /\ cur_pool_' = cur_pool_
                    /\ \A p \in Pools : header'[p].next_pool = header[p].next_pool
                    /\ \A p \in Pools \ {x} : header'[p] = header[p]
                    /\ \A c \in DOMAIN chips \ {last'.ptr} : chips'[c] = chips[c]
              /\ (IsFull(header[x]) /\ IsFull(header[cur_pool_]))
                 => /\ cur_pool_' = x
                    /\ header'[x].next_pool = header[x].next_pool]_vars


\* C18: for the 1-byte type, the link Deallocate stores in the freed chip is
\* the sub-pool's free_idx at the time of the push (kInvalidIdx included),
\* and the Allocate that pops a chip sets free_idx to the link stored in it.
C18_LinkRoundTrip ==
    [][/\ (DeallocateReturns /\ sizeofT = 1 /\ ~IsEmpty(header'[last'.pool]))
          => chips'[last'.ptr] = header[last'.pool].free_idx
       /\ (AllocateReturns /\ sizeofT = 1 /\ last'.path = "free"
             /\ chips[last'.ptr] # Undef)
          => header'[last'.pool].free_idx = chips[last'.ptr]]_vars


\* the sub-pool that serves allocation number n of a Pool that releases
\* nothing: sub-pools are used in address order, kChipCount allocations each
ServingPool(n) ==
    PageAddr((n - 1) \div (pool_num * kChipCount) + 1)
    + (((n - 1) % (pool_num * kChipCount)) \div kChipCount) * sizeofSubPool

\* C19: for the 1-byte type a page is carved into pool_num sub-pools, each
\* with an empty free list, linked in address order by next_pool; with no
\* Deallocate call, there is one acquire per pool_num * kChipCount Allocate
\* calls, which go through the sub-pools of the page in address order.
C19_BytePacking ==
    (sizeofT = 1 /\ ~deallocated /\ ub = "none" /\ live # {})
    => LET n == Cardinality(live)
       IN  /\ pages = (n - 1) \div (pool_num * kChipCount) + 1
           /\ last.pool = ServingPool(n)
           /\ \A k \in 1 .. pages : \A j \in 0 .. pool_num - 1 :
                 LET p == PageAddr(k) + j * sizeofSubPool
                 IN  /\ p \in Pools
                     /\ header[p].free_idx = kInvalidIdx
                     /\ j < pool_num - 1 => header[p].next_pool = p + sizeofSubPool


\* C20: a type of size s is accepted exactly when the usable payload
\* (kPageSize - sizeof(Header), or kPageSize / 8 - sizeof(Header) for s = 1)
\* is a multiple of s; an accepted type has kChipCount = usable payload / s;
\* and for an accepted s > 1 the header and kChipCount objects of size s
\* fill the page exactly.
C20_Layout ==
    layout.done
    => LET s      == sizeofT
           usable == (IF s = 1 THEN kPageSize \div kSmallDiv ELSE kPageSize) - sizeofHeader
       IN  /\ layout.accepted <=> usable % s = 0
           /\ layout.accepted => layout.kChipCount = usable \div s
           /\ (layout.accepted /\ s # 1)
                 => sizeofHeader + layout.kChipCount * s = kPageSize

====
